---- MODULE Spec2Model ----
(***************************************************************************)
(* Model of scripts/fetch-wikipedia.py: the bounded streaming extraction   *)
(* pipeline fetch_wikipedia_dataset() and the part of main() around it.    *)
(*                                                                         *)
(* Representation of Python values:                                        *)
(*   - an argument or a record's text that is None or absent is <<>>, a    *)
(*     present value v is <<v>>;                                           *)
(*   - a record's url and id are <<>> when the key is absent and <<v>>     *)
(*     when it is present, v being PyStr(s) for the str s or PyNone;       *)
(*   - a title or file name is a sequence of one-character strings;        *)
(*   - a body text is a run-length encoded string: a sequence of runs      *)
(*     [ch |-> c, n |-> k], k >= 1, adjacent runs of different characters; *)
(*   - size_mb, a float, is a rational: its value is num / SizeMbDen       *)
(*     megabytes, and the model holds num;                                 *)
(*   - the output directory is a function from file names to contents.     *)
(***************************************************************************)
EXTENDS Integers, Sequences, FiniteSets, TLC

VARIABLES
    size_mb,            \* argument size_mb: <<>> (None) or <<num>>
    article_count,      \* argument article_count: <<>> (None) or <<n>>
    source,             \* the records the dataset iterator will yield, in order
    dir_exists,         \* whether output_dir exists on disk
    initial_files,      \* output_dir's content when the run starts
    files,              \* output_dir's content: file name -> content
    pos,                \* number of records pulled from the iterator so far
    total_size_bytes,   \* local total_size_bytes
    articles_saved,     \* local articles_saved
    articles_skipped,   \* local articles_skipped
    filename,           \* local filename of the last probe
    counter,            \* local counter of the last probe
    written,            \* file names the loop has written, in order (history)
    progress_log,       \* the progress lines printed, in order
    stats,              \* <<>> or <<the dict returned>>
    pc,                 \* position in the program
    error               \* the exception that ended the run, or "none"

\* the arguments and the environment the run is given: they never change
inputs == <<size_mb, article_count, source, initial_files>>

vars == <<inputs, dir_exists, files, pos,
          total_size_bytes, articles_saved, articles_skipped, filename,
          counter, written, progress_log, stats, pc, error>>

----------------------------------------------------------------------------
(* Bounds of the model *)

MaxSource == 5
MaxCount == 3
MaxSizeNum == 2
MaxPre == 2

(* Program constants *)

MinStrippedLen == 100
MinTextLen == 500
ProgressEvery == 10

\* size_mb = num / SizeMbDen megabytes
SizeMbDen == 1024

----------------------------------------------------------------------------
(* Strings *)

Run(c, k) == [ch |-> c, n |-> k]

\* len(text)
RECURSIVE StrLen(_)
StrLen(text) ==
    IF text = <<>> THEN 0 ELSE Head(text).n + StrLen(Tail(text))

\* the characters str.strip() removes (those of the model's alphabet)
Whitespace == {" ", "\n", "\t"}

RECURSIVE LStrip(_)
LStrip(text) ==
    IF text # <<>> /\ Head(text).ch \in Whitespace
    THEN LStrip(Tail(text))
    ELSE text

RECURSIVE RStrip(_)
RStrip(text) ==
    IF text # <<>> /\ text[Len(text)].ch \in Whitespace
    THEN RStrip(SubSeq(text, 1, Len(text) - 1))
    ELSE text

\* text.strip()
Strip(text) == RStrip(LStrip(text))

\* number of bytes of one character in UTF-8
Utf8Len(c) ==
    CASE c = "é" -> 2
      [] c = "€" -> 3
      [] OTHER -> 1

\* mutant: the size is the number of characters, not of bytes
estimate_size_chars(text) == StrLen(text)

\* estimate_size(text) = len(text.encode('utf-8'))
RECURSIVE estimate_size(_)
estimate_size(text) ==
    IF text = <<>> THEN 0
    ELSE Head(text).n * Utf8Len(Head(text).ch) + estimate_size(Tail(text))

\* s.replace(char, r) for one-character char and r
RECURSIVE Replace(_, _, _)
Replace(s, char, r) ==
    IF s = <<>> THEN <<>>
    ELSE <<IF Head(s) = char THEN r ELSE Head(s)>>
           \o Replace(Tail(s), char, r)

unsafe_chars == <<"/", "\\", ":", "*", "?", "\"", "<", ">", "|">>

\* the for loop over unsafe_chars; c is `cleaned` after one iteration
RECURSIVE ReplaceAll(_, _)
ReplaceAll(cleaned, chars) ==
    IF chars = <<>> THEN cleaned
    ELSE CHOOSE result \in {ReplaceAll(c, Tail(chars)) :
                               c \in {Replace(cleaned, Head(chars), "_")}} :
            TRUE

\* mutant: '/' is missing from the list of unsafe characters
clean_article_title_keeps_slash(title) == ReplaceAll(title, Tail(unsafe_chars))

\* mutant: '|' is missing from the list of unsafe characters
clean_article_title_keeps_bar(title) ==
    ReplaceAll(title, SubSeq(unsafe_chars, 1, Len(unsafe_chars) - 1))

\* clean_article_title(title)
clean_article_title(title) == ReplaceAll(title, unsafe_chars)

Digits == <<"0", "1", "2", "3", "4", "5", "6", "7", "8", "9">>

\* str(n) for n >= 0
RECURSIVE IntToStr(_)
IntToStr(n) ==
    IF n < 10 THEN <<Digits[n + 1]>>
    ELSE IntToStr(n \div 10) \o <<Digits[(n % 10) + 1]>>

Ext == <<".", "j", "s", "o", "n">>

\* f"{safe_title}.json"
BaseFilename(safe_title) == safe_title \o Ext

\* f"{safe_title}_{counter}.json"
SuffixedFilename(safe_title, k) == safe_title \o <<"_">> \o IntToStr(k) \o Ext

----------------------------------------------------------------------------
(* Helpers of fetch_wikipedia_dataset *)

\* the values a url or an id can have: a str, or None
PyStr(s) == <<"str", s>>
PyNone == <<"NoneType">>

\* article.get(key, ''): the value of a present key, None included, and ''
\* for an absent key
GetOrEmpty(opt) == IF opt = <<>> THEN PyStr("") ELSE opt[1]

\* convert_to_rag_format(article)
convert_to_rag_format(article) ==
    [title |-> article.title,
     content |-> article.text[1],
     metadata |-> [categories |-> <<>>,
                   url |-> GetOrEmpty(article.url),
                   id |-> GetOrEmpty(article.id)]]

\* truth value of size_mb / article_count in "if size_mb", "if article_count"
Truthy(opt) == opt # <<>> /\ opt[1] # 0

\* target_size_bytes = size_mb * 1024 * 1024 if size_mb else None
target_size_bytes ==
    IF Truthy(size_mb)
    THEN <<(size_mb[1] * 1024 * 1024) \div SizeMbDen>>
    ELSE <<>>

\* mutants of the two checks: the comparison is strict
SizeTargetReachedStrict ==
    Truthy(size_mb) /\ total_size_bytes > target_size_bytes[1]

CountTargetReachedStrict ==
    Truthy(article_count) /\ articles_saved > article_count[1]

\* the two checks at the head of the loop body: either one breaks
SizeTargetReached ==
    Truthy(size_mb) /\ total_size_bytes >= target_size_bytes[1]

CountTargetReached ==
    Truthy(article_count) /\ articles_saved >= article_count[1]

TargetReached == SizeTargetReached \/ CountTargetReached

\* "not article.get('text') or len(article['text'].strip()) < 100"
NoText(article) ==
    IF article.text = <<>> THEN TRUE
    ELSE IF article.text[1] = <<>> THEN TRUE
    ELSE StrLen(Strip(article.text[1])) < MinStrippedLen

\* mutant: the stub check measures the stripped text
IsStubStripped(article) == StrLen(Strip(article.text[1])) < MinTextLen

\* "len(article['text']) < 500", evaluated when NoText is false
IsStub(article) == StrLen(article.text[1]) < MinTextLen

\* mutant: the first candidate is taken without looking at the directory
ProbeNoCheck(names, safe_title, fname, k) == <<fname, k>>

\* the while loop over filepath.exists(): <<filename, counter>> at its exit
RECURSIVE Probe(_, _, _, _)
Probe(names, safe_title, fname, k) ==
    IF fname \in names
    THEN Probe(names, safe_title, SuffixedFilename(safe_title, k), k + 1)
    ELSE <<fname, k>>

\* mutant: the counter starts at 0
ChooseFilenameFromZero(names, title) ==
    Probe(names, clean_article_title(title),
          BaseFilename(clean_article_title(title)), 0)

\* file name and counter chosen for a title in a directory holding `names`
ChooseFilename(names, title) ==
    Probe(names, clean_article_title(title),
          BaseFilename(clean_article_title(title)), 1)

\* open(filepath, 'w') and json.dump: the file is created or replaced
WriteFile(dir, fname, content) == (fname :> content) @@ dir

\* a file whose json.dump was cut short by an exception
PartialFile == [partial |-> TRUE]

metadata_file == <<"_", "f", "e", "t", "c", "h", "_", "m", "e", "t", "a",
                   "d", "a", "t", "a">> \o Ext

\* the progress line of lines 181-187, for the counters after the update;
\* the percentage is the rational num / den
ProgressLine(saved, total) ==
    IF Truthy(size_mb)
    THEN [mode |-> "bytes", articles |-> saved, bytes |-> total,
          num |-> total * 100, den |-> target_size_bytes[1]]
    ELSE [mode |-> "count", articles |-> saved, bytes |-> total,
          num |-> saved * 100, den |-> article_count[1]]

\* line 186 divides by article_count when size_mb is falsy: a TypeError for
\* None (size_mb = 0.0), a ZeroDivisionError for article_count = 0
ProgressRaises == ~Truthy(size_mb) /\ ~Truthy(article_count)

\* the dict of lines 190-200; floats are rationals [num, den]
FinalStats ==
    [articles_saved |-> articles_saved,
     articles_skipped |-> articles_skipped,
     total_size_mb |-> [num |-> total_size_bytes, den |-> 1024 * 1024],
     average_article_size_kb |->
        IF articles_saved > 0
        THEN [num |-> total_size_bytes, den |-> articles_saved * 1024]
        ELSE [num |-> 0, den |-> 1]]

\* the record the loop body is working on
Article == source[pos]

\* the states of the run, as the design names them
RunState ==
    CASE pc \in {"validate", "mkdir", "load"} -> "Initializing"
      [] pc \in {"pull", "body", "stats"} -> "Streaming"
      [] pc \in {"final", "metadata"} -> "Finalizing"
      [] pc = "Done" -> "Done"
      [] OTHER -> "Failed"

----------------------------------------------------------------------------
(* Inputs *)

TitleSlash == <<"A", "/", "B">>
TitleUnder == <<"A", "_", "B">>
TitleUnder1 == <<"A", "_", "B", "_", "1">>
TitleOdd == <<"a", ":", "b", "?", "\\", "|", "*", "<", ">", "\"">>
TitleMeta == <<"_", "f", "e", "t", "c", "h", "_", "m", "e", "t", "a",
               "d", "a", "t", "a">>

Rec(title, text, url, id) ==
    [title |-> title, text |-> text, url |-> url, id |-> id]

\* admissible, 600 characters, 600 bytes
Good1 == Rec(TitleSlash, <<<<Run("a", 600)>>>>, <<PyStr("u1")>>, <<PyStr("1")>>)
\* admissible, 600 characters, 900 bytes, no url and no id
Good2 == Rec(TitleUnder, <<<<Run("é", 300), Run("a", 300)>>>>, <<>>, <<>>)
\* 50 characters once stripped, 500 unstripped
Short50 ==
    Rec(TitleUnder, <<<<Run(" ", 225), Run("a", 50), Run("\n", 225)>>>>,
        <<PyStr("u3")>>, <<PyStr("3")>>)

SmallRecords == {Good1, Good2, Short50}

EdgeTexts ==
    { <<>>,                                              \* None
      <<<<>>>>,                                          \* ''
      <<<<Run(" ", 600)>>>>,
      <<<<Run("a", 99), Run(" ", 401)>>>>,
      <<<<Run("a", 100), Run(" ", 400)>>>>,
      <<<<Run("a", 100), Run(" ", 399)>>>>,
      <<<<Run("\t", 200), Run("a", 100), Run(" ", 200)>>>>,
      <<<<Run("a", 150)>>>>,
      <<<<Run("a", 499)>>>>,
      <<<<Run("a", 500)>>>>,
      <<<<Run("a", 50), Run(" ", 500), Run("a", 49)>>>>,
      <<<<Run("a", 1024)>>>>,
      <<<<Run("€", 500)>>>> }

EdgeRecords ==
    {Rec(TitleUnder, t, <<PyStr("u4")>>, <<>>) : t \in EdgeTexts}
      \cup {Rec(TitleUnder, <<<<Run("a", 600)>>>>, <<PyNone>>, <<PyNone>>)}
      \cup {Rec(t, <<<<Run("a", 600)>>>>, <<>>, <<PyStr("5")>>) :
               t \in {TitleUnder1, TitleOdd, TitleMeta, <<>>}}

RECURSIVE SeqsUpTo(_, _)
SeqsUpTo(S, n) ==
    IF n = 0 THEN {<<>>}
    ELSE LET shorter == SeqsUpTo(S, n - 1)
         IN  shorter \cup {Append(s, x) : s \in shorter, x \in S}

Repeat(x, n) == [i \in 1..n |-> x]

Sources ==
    SeqsUpTo(SmallRecords, MaxSource)
      \cup {<<r>> \o s : r \in EdgeRecords, s \in SeqsUpTo(SmallRecords, 2)}
      \cup {Repeat(Good1, n) : n \in {ProgressEvery, ProgressEvery + 1}}

\* a file left in the output directory by an earlier run
OldFile ==
    [title |-> <<"o", "l", "d">>, content |-> <<>>,
     metadata |-> [categories |-> <<>>, url |-> PyStr(""), id |-> PyStr("")]]

OldDir(names) == [f \in names |-> OldFile]

\* A_B.json, A_B_1.json, ..., A_B_(n-1).json
Taken(n) ==
    IF n = 0 THEN {}
    ELSE {BaseFilename(TitleUnder)}
           \cup {SuffixedFilename(TitleUnder, k) : k \in 1..(n - 1)}

InitialDirs ==
    {OldDir(Taken(n)) : n \in 0..MaxPre}
      \cup {OldDir({BaseFilename(TitleUnder), SuffixedFilename(TitleUnder, 2)}),
            OldDir({metadata_file})}

SizeArgs == {<<>>} \cup {<<n>> : n \in 0..MaxSizeNum}
CountArgs == {<<>>} \cup {<<n>> : n \in 0..MaxCount} \cup {<<ProgressEvery>>}

\* <<size_mb, article_count>>: one of the two, neither, or both
Configs ==
    {<<s, <<>>>> : s \in SizeArgs}
      \cup {<<<<>>, c>> : c \in CountArgs}
      \cup {<<<<s>>, <<c>>>> : s \in 0..1, c \in 0..1}

Init ==
    /\ \E cfg \in Configs :
          /\ size_mb = cfg[1]
          /\ article_count = cfg[2]
    /\ source \in Sources
    /\ \/ dir_exists = FALSE /\ initial_files = OldDir({})
       \/ dir_exists = TRUE /\ initial_files \in InitialDirs
    /\ files = initial_files
    /\ pos = 0
    /\ total_size_bytes = 0
    /\ articles_saved = 0
    /\ articles_skipped = 0
    /\ filename = <<>>
    /\ counter = 0
    /\ written = <<>>
    /\ progress_log = <<>>
    /\ stats = <<>>
    /\ pc = "validate"
    /\ error = "none"

----------------------------------------------------------------------------
(* fetch_wikipedia_dataset, lines 96-210, and main, lines 273-298 *)

Fail(e) ==
    /\ pc' = "Failed"
    /\ error' = e

\* mutant: only the check of line 97 is made
InvalidTargetsNeitherOnly == size_mb = <<>> /\ article_count = <<>>

\* the conditions of lines 97 and 100
InvalidTargets ==
    \/ size_mb = <<>> /\ article_count = <<>>
    \/ size_mb # <<>> /\ article_count # <<>>

\* lines 97-101: neither or both targets given
ValidateRaises ==
    /\ pc = "validate"
    /\ InvalidTargets
    /\ Fail("ValueError")
    /\ UNCHANGED <<inputs, dir_exists, files, pos,
                   total_size_bytes, articles_saved, articles_skipped,
                   filename, counter, written, progress_log, stats>>

ValidateOk ==
    /\ pc = "validate"
    /\ ~InvalidTargets
    /\ pc' = "mkdir"
    /\ UNCHANGED <<inputs, dir_exists, files, pos,
                   total_size_bytes, articles_saved, articles_skipped,
                   filename, counter, written, progress_log, stats, error>>

\* line 104: output_dir.mkdir(parents=True, exist_ok=True)
Mkdir ==
    /\ pc = "mkdir"
    /\ dir_exists' = TRUE
    /\ pc' = "load"
    /\ UNCHANGED <<inputs, files, pos,
                   total_size_bytes, articles_saved, articles_skipped,
                   filename, counter, written, progress_log, stats, error>>

\* line 104 raising OSError: the directory cannot be created, or it exists
\* and cannot be reached
MkdirRaises ==
    /\ pc = "mkdir"
    /\ Fail("OSError")
    /\ UNCHANGED <<inputs, dir_exists, files, pos,
                   total_size_bytes, articles_saved, articles_skipped,
                   filename, counter, written, progress_log, stats>>

\* lines 110-117: load_dataset returns the iterator
LoadDataset ==
    /\ pc = "load"
    /\ pc' = "pull"
    /\ UNCHANGED <<inputs, dir_exists, files, pos,
                   total_size_bytes, articles_saved, articles_skipped,
                   filename, counter, written, progress_log, stats, error>>

\* lines 118-121: load_dataset raises, the function calls sys.exit(1)
LoadDatasetRaises ==
    /\ pc = "load"
    /\ Fail("SystemExit")
    /\ UNCHANGED <<inputs, dir_exists, files, pos,
                   total_size_bytes, articles_saved, articles_skipped,
                   filename, counter, written, progress_log, stats>>

\* line 138: the for statement takes the next record from the iterator
Pull ==
    /\ pc = "pull"
    /\ pos < Len(source)
    /\ pos' = pos + 1
    /\ pc' = "body"
    /\ UNCHANGED <<inputs, dir_exists, files,
                   total_size_bytes, articles_saved, articles_skipped,
                   filename, counter, written, progress_log, stats, error>>

\* mutant: at the end of the stream the iterator blocks and never returns
ExhaustedBlocks ==
    /\ pc = "pull"
    /\ pos = Len(source)
    /\ UNCHANGED vars

\* line 138: the iterator is exhausted, the loop ends
Exhausted ==
    /\ pc = "pull"
    /\ pos = Len(source)
    /\ pc' = "final"
    /\ UNCHANGED <<inputs, dir_exists, files, pos,
                   total_size_bytes, articles_saved, articles_skipped,
                   filename, counter, written, progress_log, stats, error>>

\* lines 140-143: the target is reached, break
Break ==
    /\ pc = "body"
    /\ TargetReached
    /\ pc' = "final"
    /\ UNCHANGED <<inputs, dir_exists, files, pos,
                   total_size_bytes, articles_saved, articles_skipped,
                   filename, counter, written, progress_log, stats, error>>

\* mutant: a record without text is dropped without being counted
SkipNoTextNoCount ==
    /\ pc = "body"
    /\ ~TargetReached
    /\ NoText(Article)
    /\ pc' = "pull"
    /\ UNCHANGED <<inputs, dir_exists, files, pos, total_size_bytes,
                   articles_saved, articles_skipped, filename, counter,
                   written, progress_log, stats, error>>

\* lines 146-148: no text, or too short once stripped
SkipNoText ==
    /\ pc = "body"
    /\ ~TargetReached
    /\ NoText(Article)
    /\ articles_skipped' = articles_skipped + 1
    /\ pc' = "pull"
    /\ UNCHANGED <<inputs, dir_exists, files, pos,
                   total_size_bytes, articles_saved, filename, counter,
                   written, progress_log, stats, error>>

\* mutant: a stub ends the loop (break for continue)
SkipStubBreaks ==
    /\ pc = "body"
    /\ ~TargetReached
    /\ ~NoText(Article)
    /\ IsStub(Article)
    /\ articles_skipped' = articles_skipped + 1
    /\ pc' = "final"
    /\ UNCHANGED <<inputs, dir_exists, files, pos,
                   total_size_bytes, articles_saved, filename, counter,
                   written, progress_log, stats, error>>

\* lines 151-153: a stub
SkipStub ==
    /\ pc = "body"
    /\ ~TargetReached
    /\ ~NoText(Article)
    /\ IsStub(Article)
    /\ articles_skipped' = articles_skipped + 1
    /\ pc' = "pull"
    /\ UNCHANGED <<inputs, dir_exists, files, pos,
                   total_size_bytes, articles_saved, filename, counter,
                   written, progress_log, stats, error>>

Accepted ==
    /\ pc = "body"
    /\ ~TargetReached
    /\ ~NoText(Article)
    /\ ~IsStub(Article)

\* lines 156-172: convert, choose the file name, write the file
SaveArticle ==
    /\ Accepted
    /\ LET chosen == ChooseFilename(DOMAIN files, Article.title)
       IN  /\ filename' = chosen[1]
           /\ counter' = chosen[2]
           /\ files' = WriteFile(files, chosen[1],
                                 convert_to_rag_format(Article))
           /\ written' = Append(written, chosen[1])
    /\ pc' = "stats"
    /\ UNCHANGED <<inputs, dir_exists, pos,
                   total_size_bytes, articles_saved, articles_skipped,
                   progress_log, stats, error>>

\* mutant: a failed write is counted as a skipped record and the loop goes on
SaveArticleRaisesSkips ==
    /\ Accepted
    /\ LET chosen == ChooseFilename(DOMAIN files, Article.title)
       IN  /\ filename' = chosen[1]
           /\ counter' = chosen[2]
           /\ \/ files' = files
              \/ files' = WriteFile(files, chosen[1], PartialFile)
    /\ articles_skipped' = articles_skipped + 1
    /\ pc' = "pull"
    /\ UNCHANGED <<inputs, dir_exists, pos, total_size_bytes, articles_saved,
                   written, progress_log, stats, error>>

\* lines 171-172 raising: open fails (no file), or json.dump fails part way
\* (the file exists, cut short)
SaveArticleRaises ==
    /\ Accepted
    /\ LET chosen == ChooseFilename(DOMAIN files, Article.title)
       IN  /\ filename' = chosen[1]
           /\ counter' = chosen[2]
           /\ \/ files' = files
              \/ files' = WriteFile(files, chosen[1], PartialFile)
    /\ Fail("OSError")
    /\ UNCHANGED <<inputs, dir_exists, pos,
                   total_size_bytes, articles_saved, articles_skipped,
                   written, progress_log, stats>>

\* lines 175-187: the counters, and the progress line every 10 articles
UpdateStatistics ==
    /\ pc = "stats"
    /\ LET size == estimate_size(Article.text[1])
           saved == articles_saved + 1
       IN  /\ total_size_bytes' = total_size_bytes + size
           /\ articles_saved' = saved
           /\ IF saved % ProgressEvery = 0
              THEN IF ProgressRaises
                   THEN /\ Fail(IF article_count = <<>> THEN "TypeError"
                                 ELSE "ZeroDivisionError")
                        /\ UNCHANGED progress_log
                   ELSE /\ progress_log' =
                             Append(progress_log,
                                    ProgressLine(saved,
                                                 total_size_bytes + size))
                        /\ pc' = "pull"
                        /\ UNCHANGED error
              ELSE /\ pc' = "pull"
                   /\ UNCHANGED <<progress_log, error>>
    /\ UNCHANGED <<inputs, dir_exists, files, pos,
                   articles_skipped, filename, counter, written, stats>>

\* lines 190-210: the statistics are computed and returned
Finalize ==
    /\ pc = "final"
    /\ stats' = <<FinalStats>>
    /\ pc' = "metadata"
    /\ UNCHANGED <<inputs, dir_exists, files, pos,
                   total_size_bytes, articles_saved, articles_skipped,
                   filename, counter, written, progress_log, error>>

\* main, lines 284-286: the run summary is written
SaveMetadata ==
    /\ pc = "metadata"
    /\ files' = WriteFile(files, metadata_file, stats[1])
    /\ pc' = "Done"
    /\ UNCHANGED <<inputs, dir_exists, pos,
                   total_size_bytes, articles_saved, articles_skipped,
                   filename, counter, written, progress_log, stats, error>>

\* main, lines 285-286 raising, caught at line 296: open fails (nothing is
\* touched), or json.dump fails after open created or truncated the file
SaveMetadataRaises ==
    /\ pc = "metadata"
    /\ \/ files' = files
       \/ files' = WriteFile(files, metadata_file, PartialFile)
    /\ Fail("OSError")
    /\ UNCHANGED <<inputs, dir_exists, pos,
                   total_size_bytes, articles_saved, articles_skipped,
                   filename, counter, written, progress_log, stats>>

\* the iterator raises while producing the next record (line 138)
PullRaises ==
    /\ pc = "pull"
    /\ pos < Len(source)
    /\ Fail("SourceError")
    /\ UNCHANGED <<inputs, dir_exists, files, pos,
                   total_size_bytes, articles_saved, articles_skipped,
                   filename, counter, written, progress_log, stats>>

\* the values <<filename, counter>> takes while lines 164-168 run, from the
\* test of the while statement on <<fname, k>>
RECURSIVE ProbeTrace(_, _, _, _)
ProbeTrace(names, safe_title, fname, k) ==
    {<<fname, k>>}
      \cup IF fname \in names
           THEN {<<SuffixedFilename(safe_title, k), k>>}
                  \cup ProbeTrace(names, safe_title,
                                  SuffixedFilename(safe_title, k), k + 1)
           ELSE {}

\* KeyboardInterrupt anywhere in the try block of main (lines 275-291),
\* caught at lines 293-295. The statement it hits is left as it is:
\* the directory made or not (104), the record taken from the iterator or
\* not (138), the file name half chosen (160-168), a file being dumped cut
\* short (172, 286), the bytes counted alone (176) or with the article
\* (177) before the progress line, the summary complete (288-291).
Interrupt ==
    /\ pc \in {"validate", "mkdir", "load", "pull", "body", "stats",
                "final", "metadata"}
    /\ \/ UNCHANGED <<dir_exists, files, pos, filename, counter,
                      total_size_bytes, articles_saved>>
       \/ /\ pc = "mkdir"
          /\ dir_exists' = TRUE
          /\ UNCHANGED <<files, pos, filename, counter,
                         total_size_bytes, articles_saved>>
       \/ /\ pc = "pull"
          /\ pos < Len(source)
          /\ pos' = pos + 1
          /\ UNCHANGED <<dir_exists, files, filename, counter,
                         total_size_bytes, articles_saved>>
       \/ /\ Accepted
          /\ LET safe_title == clean_article_title(Article.title)
                 base == BaseFilename(safe_title)
             IN  \E step \in {<<base, counter>>}
                               \cup ProbeTrace(DOMAIN files, safe_title,
                                               base, 1) :
                    /\ filename' = step[1]
                    /\ counter' = step[2]
          /\ UNCHANGED <<dir_exists, files, pos,
                         total_size_bytes, articles_saved>>
       \/ /\ Accepted
          /\ LET chosen == ChooseFilename(DOMAIN files, Article.title)
             IN  /\ filename' = chosen[1]
                 /\ counter' = chosen[2]
                 /\ files' = WriteFile(files, chosen[1], PartialFile)
          /\ UNCHANGED <<dir_exists, pos, total_size_bytes, articles_saved>>
       \/ /\ pc = "stats"
          /\ total_size_bytes' =
                total_size_bytes + estimate_size(Article.text[1])
          /\ articles_saved' \in {articles_saved, articles_saved + 1}
          /\ UNCHANGED <<dir_exists, files, pos, filename, counter>>
       \/ /\ pc = "metadata"
          /\ \/ files' = WriteFile(files, metadata_file, PartialFile)
             \/ files' = WriteFile(files, metadata_file, stats[1])
          /\ UNCHANGED <<dir_exists, pos, filename, counter,
                         total_size_bytes, articles_saved>>
    /\ Fail("KeyboardInterrupt")
    /\ UNCHANGED <<inputs, articles_skipped, written, progress_log, stats>>

Next ==
    \/ ValidateRaises
    \/ ValidateOk
    \/ Mkdir
    \/ MkdirRaises
    \/ LoadDataset
    \/ LoadDatasetRaises
    \/ Pull
    \/ PullRaises
    \/ Exhausted
    \/ Break
    \/ SkipNoText
    \/ SkipStub
    \/ SaveArticle
    \/ SaveArticleRaises
    \/ UpdateStatistics
    \/ Finalize
    \/ SaveMetadata
    \/ SaveMetadataRaises
    \/ Interrupt

Spec == Init /\ [][Next]_vars

\* the statements the interpreter executes by itself; an exception of the
\* environment (I/O error, interrupt) may occur but is never bound to
Step ==
    \/ ValidateRaises
    \/ ValidateOk
    \/ Mkdir
    \/ LoadDataset
    \/ Pull
    \/ Exhausted
    \/ Break
    \/ SkipNoText
    \/ SkipStub
    \/ SaveArticle
    \/ UpdateStatistics
    \/ Finalize
    \/ SaveMetadata

\* the runs followed to their end: the short sources and each edge record
MaxLiveSource == 2

LiveSources ==
    SeqsUpTo(SmallRecords, MaxLiveSource) \cup {<<r>> : r \in EdgeRecords}

LiveInit == Init /\ source \in LiveSources

\* a running interpreter always executes its next statement
FairSpec == LiveInit /\ [][Next]_vars /\ WF_vars(Step)

----------------------------------------------------------------------------
(* Vocabulary of the properties *)

\* the Record Filter of the design: text present, at least 100 characters
\* once stripped and at least 500 unstripped
AcceptSpec(r) ==
    IF r.text = <<>> THEN FALSE
    ELSE /\ StrLen(Strip(r.text[1])) >= 100
         /\ StrLen(r.text[1]) >= 500

AdmissibleIn(s) == {i \in 1..Len(s) : AcceptSpec(s[i])}

NumAdmissible(s) == Cardinality(AdmissibleIn(s))

\* the run is over and returned its statistics to main, which saved them
Completed == pc = "Done"

\* the loop ended by break: the last record pulled was neither skipped nor saved
BrokeOut ==
    /\ pc \in {"final", "metadata", "Done"}
    /\ pos = articles_saved + articles_skipped + 1

\* a count-target run with target n >= 1
CountRun ==
    /\ size_mb = <<>>
    /\ article_count # <<>>
    /\ article_count[1] >= 1

\* a byte-target run with target T > 0 megabytes
ByteRun ==
    /\ article_count = <<>>
    /\ size_mb # <<>>
    /\ size_mb[1] > 0

\* T * 2^20 for size_mb = T
TargetBytes == (size_mb[1] * 1024 * 1024) \div SizeMbDen

\* index in the source of the last admissible record among the first n
LastAdmissible(n) ==
    CHOOSE i \in 1..n :
        /\ AcceptSpec(source[i])
        /\ \A j \in (i + 1)..n : ~AcceptSpec(source[j])

----------------------------------------------------------------------------
(* C1: a completed count-target run with target N >= 1, over a source that
   offers at least N admissible records, has written exactly N documents,
   whatever the interleaving of admissible and rejected records. *)
C1_CountTargetExact ==
    (Completed /\ CountRun /\ NumAdmissible(source) >= article_count[1])
        => /\ articles_saved = article_count[1]
           /\ Len(written) = article_count[1]
           /\ stats[1].articles_saved = article_count[1]

\* a run of target 2 that skipped a record and left an admissible one unread
C1_Witness ==
    /\ Completed
    /\ article_count = <<2>>
    /\ articles_saved = 2
    /\ articles_skipped >= 1
    /\ NumAdmissible(source) >= 3

(* C2: once the budget is met the source is never asked for another record:
   no step taken in a state whose positive target is met pulls a record. *)
C2_NoPullOnceBudgetMet ==
    [][ (/\ pc \in {"pull", "body", "stats"}
         /\ \/ ByteRun /\ total_size_bytes >= TargetBytes
            \/ CountRun /\ articles_saved >= article_count[1])
        => pos' = pos ]_vars

(* C3: in a byte-target run of T > 0 megabytes no document is written in a
   state where bytes_written >= T * 2^20, and a run the budget stopped ends
   with bytes_written >= T * 2^20 and bytes_written minus the size of the
   last document written < T * 2^20. *)
C3_ByteTargetStop ==
    ByteRun =>
        /\ pc = "stats" => total_size_bytes < TargetBytes
        /\ (Completed /\ BrokeOut) =>
              /\ total_size_bytes >= TargetBytes
              /\ total_size_bytes
                   - estimate_size(source[LastAdmissible(pos - 1)].text[1])
                 < TargetBytes

\* a 1 KiB target met exactly by one document of 1024 bytes
C3_Witness ==
    /\ Completed
    /\ BrokeOut
    /\ size_mb = <<1>>
    /\ article_count = <<>>
    /\ total_size_bytes = 1024
    /\ articles_saved = 1

(* C4: the Writer never overwrites an existing file: every document write
   goes to a path that is not in the directory at that moment, every file
   already there keeps its content, and the names written in one run are
   pairwise distinct. *)
C4_NeverOverwrites ==
    /\ [][ pc = "body" =>
             /\ \A f \in DOMAIN files :
                   f \in DOMAIN files' /\ files'[f] = files[f]
             /\ written' # written =>
                   written'[Len(written')] \notin DOMAIN files ]_vars
    /\ [](/\ \A i, j \in 1..Len(written) :
                i # j => written[i] # written[j]
          /\ \A f \in DOMAIN initial_files :
                /\ f \in DOMAIN files
                /\ files[f] = initial_files[f]
                     \/ (stats # <<>> /\ f = metadata_file))

\* a second document written beside a file of an earlier run with its base
C4_Witness ==
    /\ pc = "stats"
    /\ Len(written) = 2
    /\ BaseFilename(TitleUnder) \in DOMAIN initial_files
    /\ clean_article_title(source[pos].title) = TitleUnder

(* C5: the file name chosen is base.json when no such file exists, otherwise
   base_k.json for the smallest k >= 1 for which no file exists, base being
   the sanitized title. *)
C5_SmallestFreeSuffix ==
    [][ written' # written =>
          LET names == DOMAIN files
              base == clean_article_title(source[pos].title)
              f == written'[Len(written')]
          IN  IF BaseFilename(base) \notin names
              THEN f = BaseFilename(base)
              ELSE \E k \in 1..(Cardinality(names) + 1) :
                      /\ f = SuffixedFilename(base, k)
                      /\ f \notin names
                      /\ \A j \in 1..(k - 1) :
                            SuffixedFilename(base, j) \in names ]_vars

\* _1 is chosen, being free, in a directory that holds the base and _2
C5_Witness ==
    /\ pc = "stats"
    /\ filename = SuffixedFilename(TitleUnder, 1)
    /\ SuffixedFilename(TitleUnder, 2) \in DOMAIN initial_files
    /\ BaseFilename(TitleUnder) \in DOMAIN initial_files

\* the scenario: titles "A/B" then "A_B", 600 characters each, count target 2,
\* an output directory with no file
C6_Scenario ==
    /\ article_count = <<2>>
    /\ size_mb = <<>>
    /\ Len(source) = 2
    /\ source[1].title = <<"A", "/", "B">>
    /\ source[2].title = <<"A", "_", "B">>
    /\ \A i \in 1..2 : source[i].text # <<>> /\ StrLen(source[i].text[1]) = 600
    /\ DOMAIN initial_files = {}

\* two admissible records of one base, in a directory free of base.json and
\* base_1.json, both written
C6_TwoOfOneBase ==
    /\ Len(source) = 2
    /\ AcceptSpec(source[1])
    /\ AcceptSpec(source[2])
    /\ clean_article_title(source[1].title)
         = clean_article_title(source[2].title)
    /\ BaseFilename(clean_article_title(source[1].title))
         \notin DOMAIN initial_files
    /\ SuffixedFilename(clean_article_title(source[1].title), 1)
         \notin DOMAIN initial_files
    /\ Len(written) = 2

(* C6: two documents whose titles map to the same base file name give two
   distinct files, the second suffixed _1, the first not overwritten; the
   run of count target 2 over "A/B" then "A_B" writes exactly A_B.json and
   A_B_1.json and ends with 2 saved and 0 skipped. *)
C6_SameBaseTwoFiles ==
    /\ (C6_TwoOfOneBase /\ RunState \in {"Streaming", "Finalizing"})
         => LET base == clean_article_title(source[1].title)
            IN  /\ written = <<BaseFilename(base), SuffixedFilename(base, 1)>>
                /\ files[BaseFilename(base)].title = source[1].title
                /\ files[BaseFilename(base)].content = source[1].text[1]
                /\ files[SuffixedFilename(base, 1)].title = source[2].title
    /\ (C6_Scenario /\ Completed)
         => /\ written = <<BaseFilename(TitleUnder),
                           SuffixedFilename(TitleUnder, 1)>>
            /\ DOMAIN files = {BaseFilename(TitleUnder),
                               SuffixedFilename(TitleUnder, 1), metadata_file}
            /\ files[BaseFilename(TitleUnder)].title = <<"A", "/", "B">>
            /\ stats[1].articles_saved = 2
            /\ stats[1].articles_skipped = 0

C6_Witness ==
    /\ C6_Scenario
    /\ Completed
    /\ Len(written) = 2

(* C7: a run started with both targets, or with neither, fails with the
   configuration error (if it is not interrupted first) before any I/O: the
   directory is not created, no record is pulled, no file is written. *)
C7_ConfigErrorBeforeIO ==
    [][ (\/ size_mb = <<>> /\ article_count = <<>>
         \/ size_mb # <<>> /\ article_count # <<>>)
        => /\ pc = "validate"
           /\ pc' = "Failed"
           /\ error' \in {"ValueError", "KeyboardInterrupt"}
           /\ UNCHANGED <<dir_exists, files, pos, written, stats,
                          articles_saved, articles_skipped>> ]_vars

\* both targets given, the directory still absent after the failure
C7_Witness ==
    /\ pc = "Failed"
    /\ error = "ValueError"
    /\ size_mb # <<>>
    /\ article_count # <<>>
    /\ ~dir_exists
    /\ pos = 0

(* C8: the Filter accepts a pulled record if and only if its text is
   present, at least 100 characters long once stripped and at least 500
   characters long unstripped. *)
C8_FilterIff ==
    [][ (pc = "body" /\ ~TargetReached) =>
          IF AcceptSpec(source[pos])
          THEN /\ articles_skipped' = articles_skipped
               /\ pc' \in {"stats", "Failed"}
               /\ pc' = "stats" => written' # written
          ELSE /\ written' = written
               /\ files' = files
               /\ pc' \in {"pull", "Failed"}
               /\ pc' = "pull" => articles_skipped' = articles_skipped + 1
               /\ pc' = "Failed" => error' = "KeyboardInterrupt" ]_vars

\* rejected: 150 characters stripped and unstripped
C8_Witness ==
    /\ pc = "pull"
    /\ pos = 1
    /\ articles_skipped = 1
    /\ source[1].text # <<>>
    /\ StrLen(Strip(source[1].text[1])) >= 100
    /\ StrLen(source[1].text[1]) < 500

(* C9: processing a rejected record adds exactly 1 to documents_skipped and
   changes nothing else: documents_written, bytes_written and the files of
   the directory are as before, and the run stays in Streaming. *)
C9_RejectFrame ==
    [][ (/\ pc = "body"
         /\ ~TargetReached
         /\ ~AcceptSpec(source[pos])
         /\ error' = "none")
        => /\ articles_skipped' = articles_skipped + 1
           /\ UNCHANGED <<articles_saved, total_size_bytes, files, written,
                          dir_exists, pos, progress_log, stats>>
           /\ RunState' = "Streaming" ]_vars

\* two records rejected around one that was written
C9_Witness ==
    /\ pc = "pull"
    /\ articles_skipped = 2
    /\ articles_saved = 1
    /\ Len(written) = 1
    /\ ~AcceptSpec(source[pos])

\* the scenario: 5 records, 3 admissible and 2 of 50 characters once
\* stripped, count target 3
C10_Scenario ==
    /\ article_count = <<3>>
    /\ size_mb = <<>>
    /\ Len(source) = 5
    /\ NumAdmissible(source) = 3
    /\ \A i \in 1..5 :
          AcceptSpec(source[i])
            \/ (source[i].text # <<>>
                  /\ StrLen(Strip(source[i].text[1])) = 50)

\* the place in the source of its last (third) admissible record
C10_Third ==
    CHOOSE i \in AdmissibleIn(source) : \A j \in AdmissibleIn(source) : j <= i

(* C10 as stated: the completed run has written exactly 3 files and has
   documents_skipped = 2, whatever the order of the 5 records. *)
C10_SkippedTwoAnyOrder ==
    (C10_Scenario /\ Completed)
        => /\ Len(written) = 3
           /\ articles_skipped = 2

(* C10 amended: the completed run has written exactly 3 files, and
   documents_skipped is the number of 50-character records the source yields
   before its third admissible record. *)
C10_SkippedBeforeThird ==
    (C10_Scenario /\ Completed)
        => /\ Len(written) = 3
           /\ articles_saved = 3
           /\ articles_skipped
                = Cardinality({i \in 1..C10_Third : ~AcceptSpec(source[i])})

\* one short record before the third admissible one, one after
C10_Witness ==
    /\ C10_Scenario
    /\ Completed
    /\ articles_skipped = 1
    /\ ~AcceptSpec(source[5])


(* C11: an interruption received during Streaming is not an error: the run
   goes to Finalizing, not to Failed, and produces the final statistics and
   the run summary from the counters accumulated so far. *)
C11_InterruptFinalizes ==
    [][ (RunState = "Streaming" /\ error' = "KeyboardInterrupt")
        => /\ RunState' = "Finalizing"
           /\ UNCHANGED <<articles_saved, articles_skipped,
                          total_size_bytes, files>> ]_vars

(* C12: a failure of directory creation or of a document write moves the
   run to Failed at once: the record is neither retried nor counted as
   skipped, nothing more is pulled or written, the error is the one the
   caller gets, and the documents written before are on disk unchanged. *)
C12_PersistenceFailureIsFatal ==
    [][ /\ (pc = "mkdir" /\ (~dir_exists' \/ error' = "OSError"))
           => /\ pc' = "Failed"
              /\ error' \in {"OSError", "KeyboardInterrupt"}
              /\ UNCHANGED <<files, pos, written, articles_saved,
                             articles_skipped, total_size_bytes>>
        /\ (/\ pc = "body"
            /\ \/ error' = "OSError"
               \/ \E f \in DOMAIN files' \ DOMAIN files :
                     files'[f] = PartialFile)
           => /\ pc' = "Failed"
              /\ error' \in {"OSError", "KeyboardInterrupt"}
              /\ UNCHANGED <<pos, written, articles_saved,
                             articles_skipped, total_size_bytes>>
              /\ \A f \in DOMAIN files :
                    f \in DOMAIN files' /\ files'[f] = files[f]
        /\ pc # "Failed" ]_vars

\* the third document write failed part way; the first two are intact
C12_Witness ==
    /\ pc = "Failed"
    /\ error = "OSError"
    /\ stats = <<>>
    /\ Len(written) = 2
    /\ articles_saved = 2
    /\ filename \in DOMAIN files
    /\ files[filename] = PartialFile
    /\ \A i \in 1..2 : files[written[i]] # PartialFile

(* C13: the document written for a record carries the record's title, the
   record's body text exactly as content, an empty list of categories, and
   as url and id the record's own, or the empty string when the record has
   none; each accepted record gives exactly one new document. *)
C13_DocumentFaithful ==
    /\ [][ written' # written
           => LET f == written'[Len(written')]
                  doc == files'[f]
                  rec == source[pos]
              IN  /\ written' = Append(written, f)
                  /\ pos' = pos
                  /\ f \notin DOMAIN files
                  /\ DOMAIN files' = DOMAIN files \cup {f}
                  /\ \A g \in DOMAIN files : files'[g] = files[g]
                  /\ doc.title = rec.title
                  /\ doc.content = rec.text[1]
                  /\ doc.metadata.categories = <<>>
                  /\ doc.metadata.url
                       = (IF rec.url \in {<<>>, <<PyNone>>}
                          THEN PyStr("") ELSE rec.url[1])
                  /\ doc.metadata.id
                       = (IF rec.id \in {<<>>, <<PyNone>>}
                          THEN PyStr("") ELSE rec.id[1]) ]_vars
    /\ [](pc = "pull"
           => Len(written)
                = Cardinality({i \in 1..pos : AcceptSpec(source[i])}))

(* C14: every run terminates: from Streaming the run eventually leaves for
   Finalizing (or Failed), and every run eventually reaches Done or Failed;
   the search for a free file name is part of the write step and ends. *)
C14_Terminates ==
    /\ <>(RunState \in {"Done", "Failed"})
    /\ (RunState = "Streaming") ~> (RunState # "Streaming")
    /\ (pc = "body") ~> (pc # "body")

\* a run that went through the loop, probed past taken names, and is Done
C14_Witness ==
    /\ pc = "Done"
    /\ pos = Len(source)
    /\ articles_saved >= 1
    /\ articles_skipped >= 1
    /\ counter >= 2


(* C15: the counters start at zero and never decrease; each record that
   goes through the filter changes them exactly once, as one more document
   (with its bytes) or as one more skipped record, never as both; so
   documents_written + records_skipped is the number of records filtered. *)
C15_CountersExact ==
    /\ [](RunState = "Initializing"
           => /\ articles_saved = 0
              /\ articles_skipped = 0
              /\ total_size_bytes = 0)
    /\ [][ /\ articles_saved' \in {articles_saved, articles_saved + 1}
           /\ articles_skipped' \in {articles_skipped, articles_skipped + 1}
           /\ ~(/\ articles_saved' # articles_saved
                /\ articles_skipped' # articles_skipped)
           /\ total_size_bytes' >= total_size_bytes
           /\ (articles_saved' # articles_saved)
                => (total_size_bytes' # total_size_bytes)
           /\ (\/ articles_saved' # articles_saved
               \/ articles_skipped' # articles_skipped)
                => /\ pc \in {"body", "stats"}
                   /\ pc' # pc
                   /\ pos' = pos ]_vars
    /\ [](pc = "pull" => articles_saved + articles_skipped = pos)
    /\ [](pc \in {"body", "stats"}
           => articles_saved + articles_skipped = pos - 1)
    /\ [](RunState \in {"Finalizing", "Done"}
           => articles_saved + articles_skipped \in {pos - 1, pos})

\* four records went through the filter: two written, two skipped
C15_Witness ==
    /\ pc = "pull"
    /\ pos = 4
    /\ articles_saved = 2
    /\ articles_skipped = 2
    /\ total_size_bytes > 0


\* bytes of the UTF-8 encoding of the first i runs of a stored content
RECURSIVE BytesOfRuns(_, _)
BytesOfRuns(content, i) ==
    IF i = 0 THEN 0
    ELSE content[i].n * Utf8Len(content[i].ch) + BytesOfRuns(content, i - 1)

\* bytes of the contents of the first i documents written by this run
RECURSIVE BytesOnDisk(_)
BytesOnDisk(i) ==
    IF i = 0 THEN 0
    ELSE LET content == files[written[i]].content
         IN  BytesOfRuns(content, Len(content)) + BytesOnDisk(i - 1)

(* C16: between two iterations bytes_written is the sum of the UTF-8 sizes
   of the contents of the documents this run wrote and documents_written is
   the number of files it created; a document is on disk before it is
   counted, and it is counted before the next record is pulled. *)
C16_CountersMatchDisk ==
    /\ [](pc \in {"pull", "body", "final", "metadata"}
           => /\ articles_saved = Len(written)
              /\ total_size_bytes = BytesOnDisk(Len(written))
              /\ Cardinality(DOMAIN files)
                   = Cardinality(DOMAIN initial_files) + articles_saved)
    /\ [](pc = "stats"
           => /\ Len(written) = articles_saved + 1
              /\ written[Len(written)] \in DOMAIN files
              /\ total_size_bytes = BytesOnDisk(articles_saved))
    /\ [][pos' # pos => articles_saved = Len(written)]_vars

\* two documents counted between iterations, one with two-byte characters
C16_Witness ==
    /\ pc = "pull"
    /\ articles_saved = 2
    /\ Len(written) = 2
    /\ total_size_bytes = 1500
    /\ \E i \in 1..2 :
          LET content == files[written[i]].content
          IN  BytesOfRuns(content, Len(content)) > StrLen(content)


(* C17: after _fetch_metadata.json is written, every document file the run
   created still exists and still holds its document, also the document of
   a record whose title sanitizes to _fetch_metadata. *)
C17_MetadataKeepsDocuments ==
    [][ pc = "metadata"
        => \A i \in 1..Len(written) :
              /\ written[i] \in DOMAIN files'
              /\ files'[written[i]] = files[written[i]] ]_vars

\* exactly one of the two targets is given: the configuration is accepted
ValidTarget == (size_mb = <<>>) # (article_count = <<>>)

(* C18: for every target that passes validation, 0 included, the stop
   check is accumulated >= target: no document is written in a state where
   the accumulated bytes or documents have reached the target, so a target
   of 0 writes no document. *)
C18_NoWriteOnceReached ==
    [][ (ValidTarget /\ written' # written)
        => /\ size_mb # <<>> => total_size_bytes < TargetBytes
           /\ article_count # <<>> => articles_saved < article_count[1] ]_vars

(* C19: a progress snapshot is emitted exactly after each successful write
   that makes documents_written a positive multiple of 10, and at no other
   point; its percentage is by bytes in a byte-target run and by count in a
   count-target run. *)
C19_SnapshotEveryTen ==
    /\ [][ ValidTarget
           => ((progress_log' # progress_log)
                 <=> (/\ articles_saved' = articles_saved + 1
                      /\ articles_saved' % ProgressEvery = 0)) ]_vars
    /\ [](ValidTarget
           => \A i \in 1..Len(progress_log) :
                 /\ progress_log[i].articles = i * ProgressEvery
                 /\ progress_log[i].mode
                      = (IF size_mb # <<>> THEN "bytes" ELSE "count"))


----------------------------------------------------------------------------
(* clean_article_title over every short title: one record, target of one
   document, fresh output directory, no exception *)

MaxTitleLen == 3

\* the nine characters of the list, a letter and the replacement character
TitleChars == {"/", "\\", ":", "*", "?", "\"", "<", ">", "|", "a", "_"}

Titles == SeqsUpTo(TitleChars, MaxTitleLen)

InitTitle ==
    /\ size_mb = <<>>
    /\ article_count = <<1>>
    /\ source \in {<<Rec(t, <<<<Run("a", 600)>>>>, <<>>, <<>>)>> : t \in Titles}
    /\ dir_exists = FALSE
    /\ initial_files = OldDir({})
    /\ files = initial_files
    /\ pos = 0
    /\ total_size_bytes = 0
    /\ articles_saved = 0
    /\ articles_skipped = 0
    /\ filename = <<>>
    /\ counter = 0
    /\ written = <<>>
    /\ progress_log = <<>>
    /\ stats = <<>>
    /\ pc = "validate"
    /\ error = "none"

NextTitle ==
    \/ ValidateOk
    \/ Mkdir
    \/ LoadDataset
    \/ Pull
    \/ SaveArticle
    \/ UpdateStatistics
    \/ Exhausted
    \/ Finalize
    \/ SaveMetadata

SpecTitle == InitTitle /\ [][NextTitle]_vars

\* the characters the sanitizer must remove
NineChars == {"/", "\\", ":", "*", "?", "\"", "<", ">", "|"}

(* C20: clean_article_title returns a string of the same length in which
   each of the nine characters / \ : * ? " < > | is replaced by _ and every
   other character is unchanged; the result holds none of the nine, and
   cleaning it again changes nothing. The file is named after the result. *)
C20_CleanTitle ==
    LET title == source[1].title
        cleaned == clean_article_title(title)
    IN  /\ Len(cleaned) = Len(title)
        /\ \A i \in 1..Len(title) :
              cleaned[i] = (IF title[i] \in NineChars THEN "_" ELSE title[i])
        /\ \A i \in 1..Len(cleaned) : cleaned[i] \notin NineChars
        /\ clean_article_title(cleaned) = cleaned
        /\ pc \in {"stats", "final", "metadata", "Done"}
             => filename = cleaned \o Ext

\* the file of a title with a slash, a letter and a bar has been written
C20_Witness ==
    /\ pc = "stats"
    /\ source[1].title = <<"/", "a", "|">>
    /\ filename = <<"_", "a", "_">> \o Ext
    /\ filename \in DOMAIN files

====
